---- MODULE Spec2Model ----
(***************************************************************************)
(* jupyterlab_s3_browser/handlers.py : the two request handlers            *)
(* (AuthHandler, S3Handler) over an S3 object store reached through s3fs   *)
(* and boto3.                                                              *)
(*                                                                         *)
(* Python strings are sequences of one-character strings, object bodies   *)
(* are sequences of bytes (0..255), text is a sequence of code points.     *)
(* The store is a function from the full path "bucket/key" of every object *)
(* to its body.  The s3fs / fsspec / boto3 calls the handlers make are     *)
(* modelled by what the library does to the store (s3fs and fsspec         *)
(* 2023.x): trailing slashes are stripped from paths, a listing of a       *)
(* prefix with nothing under it raises FileNotFoundError, deleting a       *)
(* missing key is silent, and so on.  The buckets of the account are      *)
(* fixed: requests neither create nor remove one.  The listing cache of    *)
(* s3fs is not part of this model: every read sees the store as it is.     *)
(***************************************************************************)
EXTENDS Integers, Sequences, FiniteSets, TLC

\* store    : the objects of the bucket
\* phase    : "idle" between requests, "done" once a handler has run
\* pre, req : the store before the request in hand, and the request
\* resp     : what the handler finished with
\* finished : how often the handler called finish
\* caught   : the exception an except clause of the handler took, "none" if none
\* escaped  : the exception that left the handler, "none" if none
\* race     : where a DELETE and a PUT that run side by side stand, and what
\*            the DELETE has read and removed so far
VARIABLES store, phase, pre, req, resp, finished, caught, escaped, race

vars == <<store, phase, pre, req, resp, finished, caught, escaped, race>>

----------------------------------------------------------------------------
(* Bounds *)

\* most objects the store holds at once
MaxObjects == 2
\* longest full path of an object
MaxKeyLen == 9
\* most "/" in the full path of an object
MaxDepth == 2

----------------------------------------------------------------------------
(* Python str operations *)

Slash == <<"/">>
KeepName == <<".", "k", "e", "e", "p">>
SlashKeep == Slash \o KeepName

StartsWith(s, p) == Len(p) <= Len(s) /\ SubSeq(s, 1, Len(p)) = p

EndsWith(s, p) == Len(p) <= Len(s) /\ SubSeq(s, Len(s) - Len(p) + 1, Len(s)) = p

HasSlash(s) == \E i \in 1..Len(s) : s[i] = "/"

\* str.count("/")
CountSlash(s) == Cardinality({i \in 1..Len(s) : s[i] = "/"})

\* str.rstrip("/")
RStripSlash(s) ==
  LET keep == {i \in 1..Len(s) : s[i] # "/"}
      last == IF keep = {} THEN 0 ELSE CHOOSE i \in keep : \A j \in keep : j <= i
  IN SubSeq(s, 1, last)

\* str.lstrip("/")
LStripSlash(s) ==
  LET keep == {i \in 1..Len(s) : s[i] # "/"}
      first == IF keep = {} THEN Len(s) + 1 ELSE CHOOSE i \in keep : \A j \in keep : i <= j
  IN SubSeq(s, first, Len(s))

FirstSlash(s) == CHOOSE i \in 1..Len(s) : s[i] = "/" /\ \A j \in 1..(i - 1) : s[j] # "/"

LastSlash(s) == CHOOSE i \in 1..Len(s) : s[i] = "/" /\ \A j \in (i + 1)..Len(s) : s[j] # "/"

\* str.split("/", 1) : <<head, tail>>, the string itself and "" without a slash
SplitFirst(s) ==
  IF HasSlash(s)
  THEN <<SubSeq(s, 1, FirstSlash(s) - 1), SubSeq(s, FirstSlash(s) + 1, Len(s))>>
  ELSE <<s, <<>>>>

\* str.rsplit("/", 1)[0]
RSplitHead(s) == IF HasSlash(s) THEN SubSeq(s, 1, LastSlash(s) - 1) ELSE s

\* str.rsplit("/", 1)[-1]
RSplitLast(s) == IF HasSlash(s) THEN SubSeq(s, LastSlash(s) + 1, Len(s)) ELSE s

LowerChar(c) == IF c = "D" THEN "d" ELSE c

\* str.lower()
Lower(s) == [i \in 1..Len(s) |-> LowerChar(s[i])]

\* ord(c) for the characters paths are made of
Ord(c) ==
  CASE c = "." -> 46 [] c = "/" -> 47 [] c = "D" -> 68 [] c = "b" -> 98
    [] c = "d" -> 100 [] c = "e" -> 101 [] c = "f" -> 102 [] c = "g" -> 103
    [] c = "k" -> 107 [] c = "p" -> 112 [] OTHER -> 122

\* s < t in Python's string order
StrLess(s, t) ==
  \E i \in 1..(Len(t)) :
    /\ \A j \in 1..(i - 1) : j <= Len(s) /\ s[j] = t[j]
    /\ \/ i = Len(s) + 1
       \/ i <= Len(s) /\ Ord(s[i]) < Ord(t[i])

RECURSIVE SortedSeq(_)
\* sorted(S) for a set of strings
SortedSeq(S) ==
  IF S = {} THEN <<>>
  ELSE LET m == CHOOSE x \in S : \A y \in S \ {x} : StrLess(x, y)
       IN <<m>> \o SortedSeq(S \ {m})

----------------------------------------------------------------------------
(* The object store as s3fs shows it.  An entry of a listing carries the   *)
(* "Key" (bucket and key joined by "/") and the "type" the handlers read.  *)

BucketName == <<"b">>
Buckets == {BucketName}

\* AbstractFileSystem._strip_protocol
StripProtocol(p) == RStripSlash(p)

\* S3FileSystem.split_path : <<bucket, key>>
SplitPath(p) == SplitFirst(LStripSlash(StripProtocol(p)))

\* the full path "bucket/key" s3fs addresses for p
FullName(p) == LStripSlash(StripProtocol(p))

\* S3FileSystem._parent
ParentOf(p) == IF HasSlash(StripProtocol(p)) THEN RSplitHead(StripProtocol(p)) ELSE <<>>

\* the objects whose key lies under the prefix p + "/"
Under(st, p) == {k \in DOMAIN st : StartsWith(k, p \o Slash)}

Entry(key, type) == [Key |-> key, type |-> type]

\* S3FileSystem._lsdir(path), delimiter "/" : the objects directly under
\* path, then the common prefixes, each in key order
LsDir(st, path) ==
  LET full == FullName(path) \o Slash
      rest(k) == SubSeq(k, Len(full) + 1, Len(k))
      files == {k \in Under(st, FullName(path)) : ~HasSlash(rest(k))}
      dirs == {full \o SplitFirst(rest(k))[1] :
                 k \in {u \in Under(st, FullName(path)) : HasSlash(rest(u))}}
      fs == SortedSeq(files)
      ds == SortedSeq(dirs)
  IN [i \in 1..Len(fs) |-> Entry(fs[i], "file")]
       \o [i \in 1..Len(ds) |-> Entry(ds[i], "directory")]

\* S3FileSystem._lsbuckets
LsBuckets ==
  LET bs == SortedSeq(Buckets) IN [i \in 1..Len(bs) |-> Entry(bs[i], "directory")]

SelectEntries(s, Test(_)) ==
  LET F[i \in 0..Len(s)] ==
        IF i = 0 THEN <<>>
        ELSE IF Test(s[i]) THEN Append(F[i - 1], s[i]) ELSE F[i - 1]
  IN F[Len(s)]

\* S3FileSystem._ls(path, detail=True) = listdir(path) : [exc, files]; below a
\* bucket an empty listing raises, of a bucket it is returned
Ls(st, p) ==
  LET path == RStripSlash(StripProtocol(p))
      own == LsDir(st, path)
      IsSelf(o) == RStripSlash(o.Key) = path /\ o.type # "directory"
      files == IF own = <<>> /\ HasSlash(path)
               THEN SelectEntries(LsDir(st, ParentOf(path)), IsSelf)
               ELSE own
  IN IF path = <<>> THEN [exc |-> "none", files |-> LsBuckets]
     ELSE IF SplitPath(path)[1] \notin Buckets \/ (files = <<>> /\ HasSlash(path))
          THEN [exc |-> "FileNotFoundError", files |-> <<>>]
          ELSE [exc |-> "none", files |-> files]

\* S3FileSystem._info(path)["type"], "missing" where it raises FileNotFoundError
Info(st, p) ==
  LET bk == SplitPath(p) IN
  IF bk[2] = <<>> THEN (IF bk[1] \in Buckets THEN "directory" ELSE "missing")
  ELSE IF bk[1] \notin Buckets THEN "missing"
  ELSE IF FullName(p) \in DOMAIN st THEN "file"
  ELSE IF Under(st, FullName(p)) # {} THEN "directory"
  ELSE "missing"

\* S3FileSystem._exists
Exists(st, p) == p \in {<<>>, Slash} \/ Info(st, p) # "missing"

\* S3FileSystem._isdir
IsDir(st, p) ==
  LET path == LStripSlash(RStripSlash(StripProtocol(p))) IN
  IF ~HasSlash(path) THEN path = <<>> \/ path \in Buckets
  ELSE SplitPath(path)[1] \in Buckets /\ Under(st, path) # {}

\* the store without the objects in ks
Without(st, ks) == [k \in DOMAIN st \ ks |-> st[k]]

\* the store with object k holding body
With(st, k, body) == [x \in DOMAIN st \cup {k} |-> IF x = k THEN body ELSE st[x]]

----------------------------------------------------------------------------
(* Bodies and their encodings *)

\* str.encode("utf-8") of one code point (below 65536)
Utf8Char(c) ==
  IF c < 128 THEN <<c>>
  ELSE IF c < 2048 THEN <<192 + (c \div 64), 128 + (c % 64)>>
  ELSE <<224 + (c \div 4096), 128 + ((c \div 64) % 64), 128 + (c % 64)>>

RECURSIVE Utf8Encode(_)
\* what a text-mode file ("w", UTF-8, "\n" line ends) writes for the text
Utf8Encode(text) ==
  IF text = <<>> THEN <<>> ELSE Utf8Char(Head(text)) \o Utf8Encode(Tail(text))

\* base64 symbols: 0..63 the alphabet, Pad is "=", NewLine is "\n"
Pad == 64
NewLine == 65

\* one group of one to three bytes as four symbols
B64Group(g) ==
  LET b(i) == IF i <= Len(g) THEN g[i] ELSE 0
      n == b(1) * 65536 + b(2) * 256 + b(3)
  IN << n \div 262144,
        (n \div 4096) % 64,
        IF Len(g) >= 2 THEN (n \div 64) % 64 ELSE Pad,
        IF Len(g) >= 3 THEN n % 64 ELSE Pad >>

RECURSIVE B64Encode(_)
B64Encode(bytes) ==
  IF bytes = <<>> THEN <<>>
  ELSE IF Len(bytes) <= 3 THEN B64Group(bytes)
  ELSE B64Group(SubSeq(bytes, 1, 3)) \o B64Encode(SubSeq(bytes, 4, Len(bytes)))

\* base64.encodebytes(body).decode("ascii"), for a body of at most 57 bytes:
\* one line, newline-terminated; nothing for the empty body
EncodeBytes(bytes) == IF bytes = <<>> THEN <<>> ELSE B64Encode(bytes) \o <<NewLine>>

----------------------------------------------------------------------------
(* Store calls.  A handler run is threaded through a record m: the store,   *)
(* the number of store and client-construction calls made so far, the      *)
(* exception raised ("none" while running) and the call that is to fail.   *)

Start(st, fault) == [st |-> st, n |-> 0, exc |-> "none", fault |-> fault]

\* one more call to the store or the client library; the fault-th one raises
Tick(m) ==
  IF m.exc # "none" THEN m
  ELSE IF m.n + 1 = m.fault THEN [m EXCEPT !.n = @ + 1, !.exc = "ClientError"]
  ELSE [m EXCEPT !.n = @ + 1]

Raise(m, e) == IF m.exc = "none" THEN [m EXCEPT !.exc = e] ELSE m

\* s3fs.rm(p) : the key is deleted, silently when it is missing; a bucket
\* is removed by rmdir, which the store refuses (the buckets are fixed)
S3Rm(m, p) ==
  LET t == Tick(m) IN
  IF t.exc # "none" THEN t
  ELSE IF SplitPath(p)[2] = <<>> THEN Raise(t, "OSError")
  ELSE [t EXCEPT !.st = Without(t.st, {FullName(p)})]

\* s3fs.rm(p, recursive=True) : p and everything found under p + "/", each
\* addressed by its stripped name
S3RmRecursive(m, p) ==
  LET t == Tick(m)
      found == Under(t.st, FullName(p)) \cup {FullName(p)}
  IN IF t.exc # "none" THEN t
     ELSE IF Info(t.st, p) = "missing" THEN Raise(t, "FileNotFoundError")
     ELSE IF SplitPath(p)[2] = <<>> THEN Raise(t, "OSError")
     ELSE [t EXCEPT !.st = Without(t.st, {FullName(k) : k \in found})]

\* s3fs.touch(p) : an empty object at the key, replacing what was there
S3Touch(m, p) ==
  LET t == Tick(m) IN
  IF t.exc # "none" THEN t
  ELSE IF SplitPath(p)[1] \notin Buckets THEN Raise(t, "FileNotFoundError")
  ELSE IF SplitPath(p)[2] = <<>> THEN Raise(t, "ParamValidationError")
  ELSE [t EXCEPT !.st = With(t.st, FullName(p), <<>>)]

\* s3fs.mkdir(p) : nothing to do below an existing bucket
S3Mkdir(m, p) ==
  LET path == RStripSlash(StripProtocol(p)) IN
  IF m.exc # "none" THEN m
  ELSE IF path = <<>> THEN Raise(m, "ValueError")
  ELSE LET t == Tick(m) IN
       IF t.exc # "none" THEN t
       ELSE IF SplitPath(path)[1] \in Buckets /\ SplitPath(path)[2] = <<>>
            THEN Raise(t, "FileExistsError")
            ELSE t

\* with s3fs.open(p, "w") as f: ... : the body is put at the key when the
\* file is closed
S3Write(m, p, body) ==
  IF m.exc # "none" THEN m
  ELSE IF SplitPath(p)[2] = <<>> THEN Raise(m, "ValueError")
  ELSE LET t == Tick(m) IN
       IF t.exc # "none" THEN t
       ELSE IF SplitPath(p)[1] \notin Buckets THEN Raise(t, "FileNotFoundError")
       ELSE [t EXCEPT !.st = With(t.st, FullName(p), body)]

\* with s3fs.open(p, "rb") as f: f.read() : [exc, data]; a prefix with objects
\* under it opens as a file of size 0
OpenRead(st, p) ==
  IF SplitPath(p)[2] = <<>> THEN [exc |-> "ValueError", data |-> <<>>]
  ELSE IF Info(st, p) = "missing" THEN [exc |-> "FileNotFoundError", data |-> <<>>]
  ELSE IF Info(st, p) = "file" THEN [exc |-> "none", data |-> st[FullName(p)]]
  ELSE [exc |-> "none", data |-> <<>>]

\* s3fs.cp(src, dst, recursive=True) : every object at or under src is copied
\* to dst with the source prefix replaced (into dst when dst is a directory);
\* entries that are no objects are skipped, the bucket itself and a copy of
\* an object onto itself raise once the other copies are done
S3Copy(m, src, dst) ==
  LET t == Tick(m)
      st == t.st
      srcN == FullName(src)
      found == Under(st, srcN) \cup {srcN}
      destIsDir == EndsWith(dst, Slash) \/ IsDir(st, dst)
      exists == destIsDir /\ ~EndsWith(src, Slash)
      cp == IF exists THEN RSplitHead(srcN) ELSE srcN
      DestOf(k) == FullName(RStripSlash(dst) \o SubSeq(k, Len(cp) + 1, Len(k)))
      pairs == {<<FullName(k), DestOf(k)>> : k \in found}
      copied == {pr \in pairs : pr[1] \in DOMAIN st /\ pr[1] # pr[2]}
      dests == {pr[2] : pr \in copied}
      SourceOf(x) == (CHOOSE pr \in copied : pr[2] = x)[1]
      after == [x \in DOMAIN st \cup dests |->
                  IF x \in dests THEN st[SourceOf(x)] ELSE st[x]]
      failed == \/ SplitPath(src)[2] = <<>>
                \/ \E pr \in pairs : pr[1] \in DOMAIN st /\ pr[1] = pr[2]
  IN IF t.exc # "none" THEN t
     ELSE IF Info(st, src) = "missing" THEN Raise(t, "FileNotFoundError")
     ELSE IF failed THEN [t EXCEPT !.st = after, !.exc = "OSError"]
     ELSE [t EXCEPT !.st = after]

\* s3fs.move(src, dst, recursive=True) : fsspec's mv, a copy then a
\* recursive rm of the source; nothing when the two paths are equal
S3Move(m, src, dst) ==
  IF src = dst THEN m ELSE S3RmRecursive(S3Copy(m, src, dst), src)

\* bucket.objects.filter(Prefix=prefix).delete() : every object of the
\* bucket whose key starts with prefix
BotoDeletePrefix(m, bucket, prefix) ==
  LET t == Tick(m) IN
  IF t.exc # "none" THEN t
  ELSE IF bucket \notin Buckets THEN Raise(t, "ClientError")
  ELSE [t EXCEPT !.st =
          Without(t.st, {k \in DOMAIN t.st : StartsWith(k, bucket \o Slash \o prefix)})]

----------------------------------------------------------------------------
(* JSON values and the results the handlers finish with *)

JNum(n) == [k |-> "num", n |-> n, s |-> "", p |-> <<>>, c |-> <<>>]
\* a string the code spells out, or the text of an exception
JStr(s) == [k |-> "str", n |-> 0, s |-> s, p |-> <<>>, c |-> <<>>]
\* a path
JPath(p) == [k |-> "path", n |-> 0, s |-> "", p |-> p, c |-> <<>>]
\* base64 text
JB64(c) == [k |-> "b64", n |-> 0, s |-> "", p |-> <<>>, c |-> c]
\* the text of a request's "content"
JText(c) == [k |-> "text", n |-> 0, s |-> "", p |-> <<>>, c |-> c]
JBool(b) == [k |-> "bool", n |-> IF b THEN 1 ELSE 0, s |-> "", p |-> <<>>, c |-> <<>>]

\* a Python dict display {k1: v1, k2: v2, ...} : a key given twice keeps the
\* value given last
DictLit(prs) ==
  [key \in {prs[i][1] : i \in DOMAIN prs} |->
     prs[CHOOSE i \in DOMAIN prs :
           prs[i][1] = key /\ \A j \in DOMAIN prs : prs[j][1] = key => j <= i][2]]

ObjectResult(prs) == [shape |-> "object", obj |-> DictLit(prs), arr |-> <<>>]
ArrayResult(entries) == [shape |-> "array", obj |-> DictLit(<<>>), arr |-> entries]
NoResult == [shape |-> "none", obj |-> DictLit(<<>>), arr |-> <<>>]

FileResult(path, content) ==
  ObjectResult(<< <<"path", JPath(path)>>, <<"type", JStr("file")>>, <<"content", content>> >>)

NotFoundResult ==
  ObjectResult(<< <<"error", JNum(404)>>,
                  <<"message", JStr("The requested resource could not be found.")>> >>)

InternalResult(exc) == ObjectResult(<< <<"error", JNum(500)>>, <<"message", JStr(exc)>> >>)

\* the except clauses of S3Handler.get
GetExcept(exc) ==
  IF exc = "S3ResourceNotFoundException" THEN NotFoundResult ELSE InternalResult(exc)

\* the except clauses of S3Handler.put
PutExcept(exc) ==
  IF exc = "S3ResourceNotFoundException" THEN NotFoundResult
  ELSE IF exc = "DirectoryNotEmptyException"
       THEN ObjectResult(<< <<"error", JNum(400)>>, <<"message", JStr("Directory not empty")>> >>)
       ELSE InternalResult(exc)

\* the except clauses of S3Handler.delete
DeleteExcept(exc) ==
  IF exc = "S3ResourceNotFoundException" THEN NotFoundResult
  ELSE IF exc = "DirectoryNotEmptyException"
       THEN ObjectResult(<< <<"error", JNum(400)>>, <<"error", JStr("DIR_NOT_EMPTY")>> >>)
       ELSE InternalResult(exc)

convertS3FStoJupyterFormat(result) ==
  [name |-> RSplitLast(result.Key), path |-> result.Key, type |-> result.type]

MapEntries(s) == [i \in 1..Len(s) |-> convertS3FStoJupyterFormat(s[i])]

HasName(x) == x.name # <<>>

----------------------------------------------------------------------------
(* S3Handler : each operator is one run of the handler from store st, and  *)
(* gives the store it leaves, the exception it caught ("none" if none) and *)
(* the result it finishes with.                                            *)

\* the element of a singleton set: a value worked out once and then named
TheOne(S) == CHOOSE x \in S : TRUE

Outcome(m, result) == [st |-> m.st, n |-> m.n, exc |-> m.exc, result |-> result]

\* S3Get with the body returned as it is read, not base64-encoded
S3GetNoBase64(st, path, isDirHdr, fault) ==
  LET m1 == Tick(Start(st, fault))
      fileIntent == path # <<>> /\ ~EndsWith(path, Slash) /\ ~isDirHdr
      m2 == Tick(m1)
      rd == OpenRead(st, path)
      ls == Ls(st, path)
      m3 == Raise(m2, IF fileIntent THEN rd.exc ELSE ls.exc)
  IN IF m3.exc # "none" THEN Outcome(m3, GetExcept(m3.exc))
     ELSE IF fileIntent THEN Outcome(m3, FileResult(path, JB64(rd.data)))
     ELSE Outcome(m3, ArrayResult(SelectEntries(MapEntries(ls.files), HasName)))

\* S3Get with a listing that puts the marker of the directory it lists
S3GetTouching(st, path, isDirHdr, fault) ==
  LET m1 == Tick(Start(st, fault))
      fileIntent == path # <<>> /\ ~EndsWith(path, Slash) /\ ~isDirHdr
      m2 == Tick(m1)
      rd == OpenRead(st, path)
      ls == Ls(st, path)
      m3 == Raise(m2, IF fileIntent THEN rd.exc ELSE ls.exc)
  IN IF m3.exc # "none" THEN Outcome(m3, GetExcept(m3.exc))
     ELSE IF fileIntent THEN Outcome(m3, FileResult(path, JB64(EncodeBytes(rd.data))))
     ELSE Outcome(S3Touch(m3, RStripSlash(path) \o SlashKeep),
                  ArrayResult(SelectEntries(MapEntries(ls.files), HasName)))

S3Get(st, path, isDirHdr, fault) ==
  LET m1 == Tick(Start(st, fault))
      fileIntent == path # <<>> /\ ~EndsWith(path, Slash) /\ ~isDirHdr
      m2 == Tick(m1)
      rd == OpenRead(st, path)
      ls == Ls(st, path)
      m3 == Raise(m2, IF fileIntent THEN rd.exc ELSE ls.exc)
  IN IF m3.exc # "none" THEN Outcome(m3, GetExcept(m3.exc))
     ELSE IF fileIntent THEN Outcome(m3, FileResult(path, JB64(EncodeBytes(rd.data))))
     ELSE Outcome(m3, ArrayResult(SelectEntries(MapEntries(ls.files), HasName)))

\* the read-back of the target after a copy or a move
ReadBack(m, path) ==
  LET t == Tick(m)
      rd == OpenRead(m.st, path)
      r == Raise(t, rd.exc)
  IN IF r.exc # "none" THEN Outcome(r, PutExcept(r.exc))
     ELSE Outcome(r, FileResult(path, JB64(EncodeBytes(rd.data))))

PutCopy(m, source, path) ==
  LET target == IF ~HasSlash(source) THEN path \o SlashKeep ELSE path
  IN ReadBack(S3Copy(m, source, target), target)

PutMove(m, source, path) == ReadBack(S3Move(m, source, path), path)

PutMkdir(m, path) ==
  LET lowered == Lower(path)
      dir == IF ~EndsWith(lowered, Slash) THEN lowered \o Slash ELSE lowered
      r == S3Touch(S3Mkdir(m, dir), dir \o KeepName)
  IN IF r.exc # "none" THEN Outcome(r, PutExcept(r.exc))
     ELSE Outcome(r, ObjectResult(<<>>))

\* body.kind: "content" is a JSON object with a "content" string, "nocontent"
\* a JSON object without it, "garbage" is not JSON.  A file opened for
\* writing is closed, and so put, when the with block is left by KeyError.
PutWrite(m, path, body) ==
  LET r == CASE body.kind = "garbage" -> Raise(m, "JSONDecodeError")
             [] body.kind = "nocontent" -> Raise(S3Write(m, path, <<>>), "KeyError")
             [] OTHER -> S3Write(m, path, Utf8Encode(body.content))
  IN IF r.exc # "none" THEN Outcome(r, PutExcept(r.exc))
     ELSE Outcome(r, FileResult(path, JText(body.content)))

\* S3Put with the move header looked at before the copy header
S3PutMoveFirst(st, path, copySrc, moveSrc, isDirHdr, body, fault) ==
  LET m1 == Tick(Start(st, fault)) IN
  IF m1.exc # "none" THEN Outcome(m1, PutExcept(m1.exc))
  ELSE IF moveSrc # <<>> THEN PutMove(m1, moveSrc[1], path)
  ELSE IF copySrc # <<>> THEN PutCopy(m1, copySrc[1], path)
  ELSE IF isDirHdr THEN PutMkdir(m1, path)
  ELSE IF body.kind # "none" THEN PutWrite(m1, path, body)
  ELSE Outcome(m1, ObjectResult(<<>>))

\* copySrc and moveSrc: the header's value in a one-element sequence, <<>>
\* without the header
S3Put(st, path, copySrc, moveSrc, isDirHdr, body, fault) ==
  LET m1 == Tick(Start(st, fault)) IN
  IF m1.exc # "none" THEN Outcome(m1, PutExcept(m1.exc))
  ELSE IF copySrc # <<>> THEN PutCopy(m1, copySrc[1], path)
  ELSE IF moveSrc # <<>> THEN PutMove(m1, moveSrc[1], path)
  ELSE IF isDirHdr THEN PutMkdir(m1, path)
  ELSE IF body.kind # "none" THEN PutWrite(m1, path, body)
  ELSE Outcome(m1, ObjectResult(<<>>))

S3Delete(st, path, fault) ==
  LET m2 == Tick(Tick(Tick(Start(st, fault))))
      hasKeep == m2.exc = "none" /\ Exists(st, path \o SlashKeep)
      m3 == IF hasKeep THEN S3Rm(m2, path \o SlashKeep) ELSE m2
      \* from the listing on, with the run m and the listing ls at hand
      AfterListdir(m, ls) ==
        LET m4 == Raise(Tick(m), ls.exc)
            objects_matching_prefix == ls.files
            n == Len(objects_matching_prefix)
            is_directory == n > 1 \/ (n = 1 /\ objects_matching_prefix[1].Key # path)
            not_empty == n > 1 \/ (n = 1 /\ objects_matching_prefix[1].Key # path \o Slash)
            m5 == IF m4.exc # "none" THEN m4
                  ELSE IF is_directory
                       THEN IF not_empty THEN Raise(m4, "DirectoryNotEmptyException")
                            ELSE IF CountSlash(path) > 1
                                 THEN BotoDeletePrefix(m4, SplitFirst(path)[1], SplitFirst(path)[2])
                                 ELSE S3Rm(m4, path)
                       ELSE S3Rm(m4, path)
        IN IF m5.exc # "none" THEN Outcome(m5, DeleteExcept(m5.exc))
           ELSE Outcome(m5, ObjectResult(<<>>))
      AfterMarker(m) == TheOne({AfterListdir(m, ls) : ls \in {Ls(m.st, path \o Slash)}})
  IN TheOne({AfterMarker(m) : m \in {m3}})

----------------------------------------------------------------------------
(* The calls a run of S3Handler makes on its store clients, in order, up   *)
(* to the one that raises.  invalidate_cache works on the client alone and *)
(* does not fail.                                                          *)

GetCalls(st, path, isDirHdr, fault) ==
  LET fileIntent == path # <<>> /\ ~EndsWith(path, Slash) /\ ~isDirHdr IN
  IF S3Get(st, path, isDirHdr, fault).n < 2 THEN <<"create_s3fs">>
  ELSE <<"create_s3fs", "invalidate_cache", IF fileIntent THEN "open" ELSE "listdir">>

PutCalls(st, path, copySrc, moveSrc, isDirHdr, body, fault) ==
  LET full == IF copySrc # <<>> THEN <<"create_s3fs", "cp", "open">>
              ELSE IF moveSrc # <<>>
                   THEN IF moveSrc[1] = path THEN <<"create_s3fs", "open">>
                        ELSE <<"create_s3fs", "move", "open">>
              ELSE IF isDirHdr THEN <<"create_s3fs", "mkdir", "touch">>
              ELSE <<"create_s3fs", "open_w">>
      made == S3Put(st, path, copySrc, moveSrc, isDirHdr, body, fault).n
  IN SubSeq(full, 1, IF made < Len(full) THEN made ELSE Len(full))

DeleteCalls(st, path, fault) ==
  LET hasKeep == Exists(st, path \o SlashKeep)
      after == IF hasKeep THEN Without(st, {FullName(path \o SlashKeep)}) ELSE st
      ls == Ls(after, path \o Slash).files
      bulk == /\ Len(ls) = 1 /\ ls[1].Key # path /\ ls[1].Key = path \o Slash
              /\ CountSlash(path) > 1
      full == <<"create_s3fs", "create_s3_resource", "exists">>
                \o (IF hasKeep THEN <<"rm">> ELSE <<>>)
                \o <<"listdir", IF bulk THEN "delete" ELSE "rm">>
      made == S3Delete(st, path, fault).n
  IN SubSeq(full, 1, IF made < Len(full) THEN made ELSE Len(full))

----------------------------------------------------------------------------
(* AuthHandler *)

KeyIdField == <<"a", "w", "s", "_", "a", "c", "c", "e", "s", "s", "_", "k", "e", "y", "_", "i", "d">>
AKIA == <<"A", "K", "I", "A">>
ASIA == <<"A", "S", "I", "A">>

IsSpace(c) == c \in {" ", "\n", "\t", "\r"}

\* str.strip()
Strip(x) ==
  LET keep == {i \in 1..Len(x) : ~IsSpace(x[i])} IN
  IF keep = {} THEN <<>>
  ELSE SubSeq(x, CHOOSE i \in keep : \A j \in keep : i <= j,
                 CHOOSE i \in keep : \A j \in keep : j <= i)

HasEquals(line) == \E i \in 1..Len(line) : line[i] = "="

\* line.split("=", 1)[1]
AfterEquals(line) ==
  SubSeq(line, 1 + (CHOOSE i \in 1..Len(line) :
                      line[i] = "=" /\ \A j \in 1..(i - 1) : line[j] # "="), Len(line))

RECURSIVE ScanCredentials(_)
\* the loop over the lines of ~/.aws/credentials: "invalid" where it returns
\* False, "IndexError" where split("=", 1)[1] has no second element, "ok"
\* where the loop ends
ScanCredentials(lines) ==
  IF lines = <<>> THEN "ok"
  ELSE IF ~StartsWith(Head(lines), KeyIdField) THEN ScanCredentials(Tail(lines))
  ELSE IF ~HasEquals(Head(lines)) THEN "IndexError"
  ELSE LET access_key_id == Strip(AfterEquals(Head(lines))) IN
       IF ~StartsWith(access_key_id, AKIA) /\ ~StartsWith(access_key_id, ASIA)
       THEN "invalid"
       ELSE ScanCredentials(Tail(lines))

RECURSIVE ProbeBuckets(_)
\* the loop of _test_aws_s3_role_access over the buckets: the exception it
\* lets out, "none" if every probe passed or was denied
ProbeBuckets(probes) ==
  IF probes = <<>> THEN "none"
  ELSE IF Head(probes) \in {"ok", "AccessDenied"} THEN ProbeBuckets(Tail(probes))
  ELSE Head(probes)

\* ambient.list: the outcome of boto3.client("s3").list_buckets();
\* ambient.probes: the outcome of list_objects_v2 on each bucket it returns
\* ("ClientError" is a ClientError with another code than AccessDenied)
test_aws_s3_role_access(ambient) ==
  IF ambient.list # "ok" THEN ambient.list ELSE ProbeBuckets(ambient.probes)

\* [escaped, value] : the exception has_aws_s3_role_access lets out, or
\* "none" and the value it returns
has_aws_s3_role_access(cred, ambient) ==
  LET scan == ScanCredentials(cred.lines) IN
  IF cred.exists /\ ~cred.readable THEN [escaped |-> "PermissionError", value |-> FALSE]
  ELSE IF cred.exists /\ scan = "IndexError" THEN [escaped |-> "IndexError", value |-> FALSE]
  ELSE IF cred.exists /\ scan = "invalid" THEN [escaped |-> "none", value |-> FALSE]
  ELSE [escaped |-> "none", value |-> test_aws_s3_role_access(ambient) = "none"]

\* whether has_aws_s3_role_access gets to _test_aws_s3_role_access
AmbientAttempted(cred) ==
  ~cred.exists \/ (cred.readable /\ ScanCredentials(cred.lines) = "ok")

Configured(cfg) == cfg.endpoint_url /\ cfg.client_id /\ cfg.client_secret

\* explicit: "ok" where test_s3_credentials returns, else the exception it raises
AuthGet(cred, ambient, cfg, explicit) ==
  LET role == has_aws_s3_role_access(cred, ambient)
      tried == ~role.value /\ Configured(cfg)
      authenticated == role.value \/ (tried /\ explicit = "ok")
  IN IF role.escaped # "none"
     THEN [finished |-> 0, caught |-> "none", escaped |-> role.escaped, result |-> NoResult]
     ELSE [finished |-> 1,
           caught |-> IF tried /\ explicit # "ok" THEN explicit ELSE "none",
           escaped |-> "none",
           result |-> ObjectResult(<< <<"authenticated", JBool(authenticated)>> >>)]

----------------------------------------------------------------------------
(* Requests *)

PRoot == <<>>
PBucket == <<"b">>
PDir == <<"b", "/", "d">>
PDirSlash == <<"b", "/", "d", "/">>
PFile == <<"b", "/", "d", "/", "f">>
PUpper == <<"b", "/", "D">>
PKeep == PDir \o SlashKeep

Paths == {PRoot, PBucket, PDir, PDirSlash, PFile, PUpper}
PutPaths == {PDir, PDirSlash, PFile, PUpper}
\* X-Custom-S3-Copy-Src
CopySources == {<<>>, <<PBucket>>, <<PFile>>}
\* X-Custom-S3-Move-Src (the bucket itself is never moved)
MoveSources == {<<>>, <<PFile>>, <<PDir>>}

\* code points: no text, and "e" with an acute accent (two bytes) before the
\* euro sign (three bytes), whose base64 has a full and a padded group
Texts == {<<>>, <<233, 8364>>}

NoBody == [kind |-> "none", content |-> <<>>]
Bodies == {NoBody, [kind |-> "nocontent", content |-> <<>>],
           [kind |-> "garbage", content |-> <<>>]}
            \cup {[kind |-> "content", content |-> c] : c \in Texts}

LongBody == [kind |-> "content", content |-> <<233, 8364>>]

\* the call that fails, 0 for none
MaxFault == 3
Faults == 0..MaxFault

\* ~/.aws/credentials
NoCredFile == [exists |-> FALSE, readable |-> FALSE, lines |-> <<>>]
CredFile(lines) == [exists |-> TRUE, readable |-> TRUE, lines |-> lines]
LineSection == <<"[", "d", "e", "f", "a", "u", "l", "t", "]", "\n">>
LineAkia == <<"a", "w", "s", "_", "a", "c", "c", "e", "s", "s", "_", "k", "e", "y", "_", "i", "d", " ", "=", " ", "A", "K", "I", "A", "X", "\n">>
LineAsia == <<"a", "w", "s", "_", "a", "c", "c", "e", "s", "s", "_", "k", "e", "y", "_", "i", "d", "=", "A", "S", "I", "A", "X", "\n">>
LineOther == <<"a", "w", "s", "_", "a", "c", "c", "e", "s", "s", "_", "k", "e", "y", "_", "i", "d", " ", "=", " ", "X", "Y", "Z", "\n">>
LineNoValue == <<"a", "w", "s", "_", "a", "c", "c", "e", "s", "s", "_", "k", "e", "y", "_", "i", "d", "\n">>
CredFiles == {NoCredFile,
              [exists |-> TRUE, readable |-> FALSE, lines |-> <<>>],
              CredFile(<<LineSection, LineAkia>>),
              CredFile(<<LineAsia, LineOther>>),
              CredFile(<<LineSection, LineOther>>),
              CredFile(<<LineSection, LineNoValue>>),
              CredFile(<<LineNoValue, LineOther>>)}

\* most buckets the ambient account lists
MaxBuckets == 1
ProbeOutcomes == {"ok", "AccessDenied", "ClientError"}
NoAmbient == [list |-> "unused", probes |-> <<>>]
Ambients ==
  {[list |-> l, probes |-> <<>>] : l \in {"NoCredentialsError", "ClientError"}}
    \cup {[list |-> "ok", probes |-> pr] :
            pr \in UNION {[1..n -> ProbeOutcomes] : n \in 0..MaxBuckets}}

NoConfig == [endpoint_url |-> FALSE, client_id |-> FALSE, client_secret |-> FALSE]
AllConfig == [endpoint_url |-> TRUE, client_id |-> TRUE, client_secret |-> TRUE]
\* every setting present, or exactly one of them missing
Configs ==
  {AllConfig, [AllConfig EXCEPT !.endpoint_url = FALSE],
   [AllConfig EXCEPT !.client_id = FALSE], [AllConfig EXCEPT !.client_secret = FALSE]}

Request(handler, method, path, copySrc, moveSrc, isDir, body, fault, cred, ambient, cfg, explicit) ==
  [handler |-> handler, method |-> method, path |-> path, copySrc |-> copySrc,
   moveSrc |-> moveSrc, isDir |-> isDir, body |-> body, fault |-> fault,
   cred |-> cred, ambient |-> ambient, cfg |-> cfg, explicit |-> explicit]

FilesRequest(method, path, copySrc, moveSrc, isDir, body, fault) ==
  Request("files", method, path, copySrc, moveSrc, isDir, body, fault,
          NoCredFile, NoAmbient, NoConfig, "unused")

AuthRequest(cred, ambient, cfg, explicit) ==
  Request("auth", "GET", <<>>, <<>>, <<>>, FALSE, NoBody, 0, cred, ambient, cfg, explicit)

NoRequest ==
  Request("none", "none", <<>>, <<>>, <<>>, FALSE, NoBody, 0,
          NoCredFile, NoAmbient, NoConfig, "unused")

----------------------------------------------------------------------------
(* The state machine: one action per handler, a request at a time; the    *)
(* request in hand is kept until Complete (the framework has sent the     *)
(* response and dropped the handler object).                               *)

EmptyStore == [k \in {} |-> <<>>]

\* a folder placeholder made outside the handlers (an empty object "d/f/")
PlaceholderStore == [k \in {PFile \o Slash} |-> <<>>]

\* the placeholder beside an object whose key begins with the folder's name
SiblingStore ==
  [k \in {PFile \o Slash, PFile \o <<"g">>} |-> IF k = PFile \o Slash THEN <<>> ELSE <<103>>]

InitStores == {EmptyStore, PlaceholderStore, SiblingStore}

WithinBounds(st) ==
  /\ Cardinality(DOMAIN st) <= MaxObjects
  /\ \A k \in DOMAIN st : Len(k) <= MaxKeyLen /\ CountSlash(RStripSlash(k)) <= MaxDepth

\* the call that is to fail is one the run makes
FaultFires(o, fault) == fault = 0 \/ fault <= o.n

\* no two requests side by side
NoRace == [dpc |-> "none", ppc |-> "none", body |-> <<>>, hasKeep |-> FALSE,
           listed |-> <<>>, exc |-> "none", removed |-> {}]

Init ==
  /\ race = NoRace
  /\ store \in InitStores
  /\ phase = "idle"
  /\ pre = store
  /\ req = NoRequest
  /\ resp = NoResult
  /\ finished = 0
  /\ caught = "none"
  /\ escaped = "none"

Answer(o, request) ==
  /\ phase' = "done"
  /\ WithinBounds(o.st)
  /\ FaultFires(o, request.fault)
  /\ store' = o.st
  /\ pre' = store
  /\ req' = request
  /\ resp' = o.result
  /\ finished' = 1
  /\ caught' = o.exc
  /\ escaped' = "none"
  /\ UNCHANGED race

Get ==
  /\ phase = "idle"
  /\ \E path \in Paths, isDir \in BOOLEAN, fault \in Faults :
    Answer(S3Get(store, path, isDir, fault),
           FilesRequest("GET", path, <<>>, <<>>, isDir, NoBody, fault))

Put ==
  /\ phase = "idle"
  /\ \E path \in PutPaths, copySrc \in CopySources, moveSrc \in MoveSources,
     isDir \in BOOLEAN, body \in Bodies, fault \in Faults :
    \* a request with one of the headers has no body or the longest text
    /\ (copySrc # <<>> \/ moveSrc # <<>> \/ isDir) => body \in {NoBody, LongBody}
    /\ Answer(S3Put(store, path, copySrc, moveSrc, isDir, body, fault),
           FilesRequest("PUT", path, copySrc, moveSrc, isDir, body, fault))

Delete ==
  /\ phase = "idle"
  /\ \E path \in Paths, fault \in Faults :
    Answer(S3Delete(store, path, fault),
           FilesRequest("DELETE", path, <<>>, <<>>, FALSE, NoBody, fault))

\* inputs the run does not read are left at their defaults
Auth ==
  /\ phase = "idle"
  /\ \E cred \in CredFiles, ambient \in Ambients \cup {NoAmbient},
     cfg \in Configs, explicit \in {"ok", "ClientError", "unused"} :
    LET a == AuthGet(cred, ambient, cfg, explicit)
        explicitRead == a.escaped = "none" /\ ~has_aws_s3_role_access(cred, ambient).value
                          /\ Configured(cfg)
    IN /\ phase' = "done"
       /\ (ambient = NoAmbient) = ~AmbientAttempted(cred)
       /\ (explicit = "unused") = ~explicitRead
       /\ store' = store
       /\ pre' = store
       /\ req' = AuthRequest(cred, ambient, cfg, explicit)
       /\ resp' = a.result
       /\ finished' = a.finished
       /\ caught' = a.caught
       /\ escaped' = a.escaped
       /\ UNCHANGED race

Complete ==
  /\ phase = "done"
  /\ phase' = "idle"
  /\ pre' = store
  /\ req' = NoRequest
  /\ resp' = NoResult
  /\ finished' = 0
  /\ caught' = "none"
  /\ escaped' = "none"
  /\ UNCHANGED <<store, race>>

\* the files handler
Next == Get \/ Put \/ Delete \/ Complete

Spec == Init /\ [][Next]_vars

\* the auth handler, which neither reads nor changes the store
AuthNext == Auth \/ Complete

AuthSpec == Init /\ [][AuthNext]_vars

\* the two handlers on one server
AllNext == Get \/ Put \/ Delete \/ Auth \/ Complete

AllSpec == Init /\ [][AllNext]_vars

----------------------------------------------------------------------------
(* A DELETE of a directory and a plain write of a file under it, sent to   *)
(* two servers over the same bucket: each store call is one step, and the  *)
(* steps of the two requests interleave.  The handlers take no lock.       *)

RaceDirs == {PDir, PFile}

\* the file the PUT writes under the directory d
RaceFile(d) == d \o Slash \o <<"f">>

\* the directory with or without its marker and its folder placeholder
RaceStores(d) ==
  {[k \in ks |-> <<>>] : ks \in SUBSET {d \o SlashKeep, d \o Slash}}

RaceInit ==
  \E d \in RaceDirs, c \in Texts :
    /\ store \in RaceStores(d)
    /\ pre = store
    /\ phase = "idle"
    /\ req = FilesRequest("DELETE", d, <<>>, <<>>, FALSE, NoBody, 0)
    /\ resp = NoResult
    /\ finished = 0
    /\ caught = "none"
    /\ escaped = "none"
    /\ race = [NoRace EXCEPT !.dpc = "exists", !.ppc = "write", !.body = c]

\* delete, line 299: self.s3fs.exists(path + "/.keep")
RaceExists ==
  /\ race.dpc = "exists"
  /\ LET hasKeep == Exists(store, req.path \o SlashKeep) IN
     race' = [race EXCEPT !.hasKeep = hasKeep,
                          !.dpc = IF hasKeep THEN "rm_keep" ELSE "listdir"]
  /\ UNCHANGED <<store, phase, pre, req, resp, finished, caught, escaped>>

\* delete, line 300: self.s3fs.rm(path + "/.keep")
RaceRmKeep ==
  /\ race.dpc = "rm_keep"
  /\ LET m == S3Rm(Start(store, 0), req.path \o SlashKeep) IN
     /\ store' = m.st
     /\ race' = [race EXCEPT !.exc = m.exc,
                             !.removed = @ \cup (DOMAIN store \ DOMAIN m.st),
                             !.dpc = IF m.exc # "none" THEN "finish" ELSE "listdir"]
  /\ UNCHANGED <<phase, pre, req, resp, finished, caught, escaped>>

\* delete, lines 302-313: the listing and what the handler makes of it
RaceListdir ==
  /\ race.dpc = "listdir"
  /\ LET path == req.path
         ls == Ls(store, path \o Slash)
         objects_matching_prefix == ls.files
         n == Len(objects_matching_prefix)
         is_directory == n > 1 \/ (n = 1 /\ objects_matching_prefix[1].Key # path)
         not_empty == n > 1 \/ (n = 1 /\ objects_matching_prefix[1].Key # path \o Slash)
         exc == IF ls.exc # "none" THEN ls.exc
                ELSE IF is_directory /\ not_empty THEN "DirectoryNotEmptyException"
                ELSE "none"
     IN race' = [race EXCEPT !.listed = objects_matching_prefix, !.exc = exc,
                             !.dpc = IF exc # "none" THEN "finish" ELSE "remove"]
  /\ UNCHANGED <<store, phase, pre, req, resp, finished, caught, escaped>>

\* delete, lines 314-323: the removal the listing led to
RaceRemove ==
  /\ race.dpc = "remove"
  /\ LET path == req.path
         n == Len(race.listed)
         is_directory == n > 1 \/ (n = 1 /\ race.listed[1].Key # path)
         m == IF is_directory /\ CountSlash(path) > 1
              THEN BotoDeletePrefix(Start(store, 0), SplitFirst(path)[1], SplitFirst(path)[2])
              ELSE S3Rm(Start(store, 0), path)
     IN /\ store' = m.st
        /\ race' = [race EXCEPT !.exc = m.exc,
                                !.removed = @ \cup (DOMAIN store \ DOMAIN m.st),
                                !.dpc = "finish"]
  /\ UNCHANGED <<phase, pre, req, resp, finished, caught, escaped>>

\* delete, lines 325-339: the except clauses and finish
RaceFinish ==
  /\ race.dpc = "finish"
  /\ phase' = "done"
  /\ resp' = IF race.exc # "none" THEN DeleteExcept(race.exc) ELSE ObjectResult(<<>>)
  /\ finished' = 1
  /\ caught' = race.exc
  /\ race' = [race EXCEPT !.dpc = "done"]
  /\ UNCHANGED <<store, pre, req, escaped>>

\* put, lines 258-266 on the other server: the file is put when it is closed
RaceWrite ==
  /\ race.ppc = "write"
  /\ store' = S3Write(Start(store, 0), RaceFile(req.path), Utf8Encode(race.body)).st
  /\ race' = [race EXCEPT !.ppc = "done"]
  /\ UNCHANGED <<phase, pre, req, resp, finished, caught, escaped>>

RaceNext ==
  RaceExists \/ RaceRmKeep \/ RaceListdir \/ RaceRemove \/ RaceFinish \/ RaceWrite

RaceSpec == RaceInit /\ [][RaceNext]_vars

----------------------------------------------------------------------------
(* What a client does with a result *)

RECURSIVE B64DecodeGroups(_)
B64DecodeGroups(q) ==
  IF Len(q) < 4 THEN <<>>
  ELSE LET v(i) == IF q[i] = Pad THEN 0 ELSE q[i]
           n == v(1) * 262144 + v(2) * 4096 + v(3) * 64 + v(4)
           bytes == <<n \div 65536, (n \div 256) % 256, n % 256>>
           count == IF q[3] = Pad THEN 1 ELSE IF q[4] = Pad THEN 2 ELSE 3
       IN SubSeq(bytes, 1, count) \o B64DecodeGroups(SubSeq(q, 5, Len(q)))

\* base64 decoding, line ends skipped
B64Decode(symbols) == B64DecodeGroups(SelectSeq(symbols, LAMBDA x : x # NewLine))

RECURSIVE Utf8Decode(_)
\* bytes.decode("utf-8"); <<-1>> where the bytes are no UTF-8
Utf8Decode(bytes) ==
  IF bytes = <<>> THEN <<>>
  ELSE IF bytes[1] < 128 THEN <<bytes[1]>> \o Utf8Decode(Tail(bytes))
  ELSE IF bytes[1] >= 192 /\ bytes[1] < 224 /\ Len(bytes) >= 2
       THEN <<(bytes[1] - 192) * 64 + (bytes[2] - 128)>> \o Utf8Decode(SubSeq(bytes, 3, Len(bytes)))
  ELSE IF bytes[1] >= 224 /\ bytes[1] < 240 /\ Len(bytes) >= 3
       THEN <<(bytes[1] - 224) * 4096 + (bytes[2] - 128) * 64 + (bytes[3] - 128)>>
              \o Utf8Decode(SubSeq(bytes, 4, Len(bytes)))
  ELSE <<-1>>

HasError(r) == r.shape = "object" /\ "error" \in DOMAIN r.obj

ErrorIs(r, v) == HasError(r) /\ r.obj["error"] = v

IsFile(r) == r.shape = "object" /\ ~HasError(r) /\ "content" \in DOMAIN r.obj

\* the bytes of a file result of GET
FileBytes(r) == B64Decode(r.obj["content"].c)

----------------------------------------------------------------------------
(* Properties *)

Done(method) == phase = "done" /\ req.handler = "files" /\ req.method = method

\* a path read or written as a file: not empty, no trailing slash, a key in it
FilePath(p) == p # <<>> /\ ~EndsWith(p, Slash) /\ HasSlash(p)

DirOf(d) == RStripSlash(d)
MarkerOf(d) == DirOf(d) \o SlashKeep

\* the objects under directory d other than its marker and its placeholder
RealUnder(st, d) == {k \in Under(st, DirOf(d)) : k # MarkerOf(d) /\ k # DirOf(d) \o Slash}

PlainWrite ==
  /\ Done("PUT") /\ req.copySrc = <<>> /\ req.moveSrc = <<>> /\ ~req.isDir
  /\ req.body.kind = "content"

\* C1: a DELETE of a directory that holds a non-marker object ends with the
\* non-empty-directory error and leaves the store as it was, the marker of
\* the directory included.
C1_NonEmptyDeleteKeepsStore ==
  (Done("DELETE") /\ req.fault = 0 /\ HasSlash(DirOf(req.path))
     /\ \E k \in RealUnder(pre, req.path) : ~EndsWith(k, Slash))
    => (caught = "DirectoryNotEmptyException" /\ store = pre)

\* C2: a DELETE of a directory whose only content is its marker answers
\* without an error and leaves neither the marker nor any object under it.
C2_MarkerOnlyDeleteSucceeds ==
  (Done("DELETE") /\ req.fault = 0 /\ HasSlash(DirOf(req.path))
     /\ DirOf(req.path) \notin DOMAIN pre
     /\ Under(pre, DirOf(req.path)) = {MarkerOf(req.path)})
    => (~HasError(resp) /\ Under(store, DirOf(req.path)) = {})

\* C3: round trip. A plain write of text c to file path p puts the UTF-8
\* bytes of c at p and a GET of p right after it returns c; and a GET of an
\* existing file returns, base64-decoded, exactly the bytes the store holds,
\* so that the text is read back for as long as p is not written again.
C3_RoundTrip ==
  /\ (PlainWrite /\ FilePath(req.path) /\ ~HasError(resp))
       => /\ FullName(req.path) \in DOMAIN store
          /\ Utf8Decode(store[FullName(req.path)]) = req.body.content
          /\ LET g == S3Get(store, req.path, FALSE, 0).result
             IN IsFile(g) /\ Utf8Decode(FileBytes(g)) = req.body.content
  /\ (Done("GET") /\ FilePath(req.path) /\ ~req.isDir /\ req.fault = 0
        /\ req.path \in DOMAIN pre)
       => (IsFile(resp) /\ FileBytes(resp) = pre[req.path])

\* a GET has returned the text written by a plain write, with its
\* two-byte character
C3_Witness ==
  /\ Done("GET") /\ IsFile(resp)
  /\ Utf8Decode(FileBytes(resp)) = <<233, 8364>>

\* C4: after a move of an existing file s to d # s, a GET of d returns the
\* content s had and a GET of s answers not found (404).  Stated for the
\* plainest case: d is a file path not under s, nothing lies under s or d.
C4_MoveThenReadBack ==
  (Done("PUT") /\ req.copySrc = <<>> /\ req.moveSrc # <<>> /\ req.fault = 0
     /\ req.moveSrc[1] \in DOMAIN pre /\ req.path # req.moveSrc[1]
     /\ FilePath(req.path) /\ ~StartsWith(req.path, req.moveSrc[1] \o Slash)
     /\ Under(pre, req.moveSrc[1]) = {} /\ Under(pre, req.path) = {})
    => LET gd == S3Get(store, req.path, FALSE, 0).result
           gs == S3Get(store, req.moveSrc[1], FALSE, 0).result
       IN /\ IsFile(gd) /\ FileBytes(gd) = pre[req.moveSrc[1]]
          /\ ErrorIs(gs, JNum(404))

\* C5: no entry of a directory listing stands for a ".keep" marker.
C5_NoMarkerInListing ==
  (Done("GET") /\ resp.shape = "array")
    => \A i \in 1..Len(resp.arr) : resp.arr[i].name # KeepName

\* C6: once a plain write, a copy or a move has added a non-marker object
\* under a directory that had its marker, the marker is gone.
C6_MarkerRemovedOnContent ==
  (Done("PUT") /\ ~HasError(resp) /\ (req.copySrc # <<>> \/ req.moveSrc # <<>> \/ ~req.isDir))
    => \A k \in DOMAIN store \ DOMAIN pre :
         (RSplitLast(k) # KeepName /\ (ParentOf(k) \o SlashKeep) \in DOMAIN pre)
           => (ParentOf(k) \o SlashKeep) \notin DOMAIN store

\* C7: when a DELETE of a file removes the last non-marker object under its
\* directory, the marker of that directory exists afterwards.
C7_MarkerCreatedOnEmptying ==
  (Done("DELETE") /\ FilePath(req.path) /\ req.path \in DOMAIN pre
     /\ req.path \notin DOMAIN store /\ HasSlash(ParentOf(req.path))
     /\ RealUnder(store, ParentOf(req.path)) = {})
    => MarkerOf(ParentOf(req.path)) \in DOMAIN store

\* C8: a GET of a file path with nothing at or under it answers 404, and so
\* do a DELETE of such a path and a copy or move PUT from such a source.
C8_NotFoundIs404 ==
  /\ (Done("GET") /\ FilePath(req.path) /\ ~req.isDir /\ req.fault = 0
        /\ Info(pre, req.path) = "missing")
       => ErrorIs(resp, JNum(404))
  /\ (Done("DELETE") /\ FilePath(req.path) /\ req.fault = 0
        /\ Info(pre, req.path) = "missing")
       => ErrorIs(resp, JNum(404))
  /\ (Done("PUT") /\ req.fault = 0 /\ req.copySrc # <<>>
        /\ Info(pre, req.copySrc[1]) = "missing")
       => ErrorIs(resp, JNum(404))
  /\ (Done("PUT") /\ req.fault = 0 /\ req.copySrc = <<>> /\ req.moveSrc # <<>>
        /\ req.moveSrc[1] # req.path /\ Info(pre, req.moveSrc[1]) = "missing")
       => ErrorIs(resp, JNum(404))

\* C9: the response of a DELETE refused because the directory is not empty
\* carries both the status 400 and the DIR_NOT_EMPTY marker.
C9_DirNotEmptyCarries400 ==
  (Done("DELETE") /\ caught = "DirectoryNotEmptyException")
    => /\ \E key \in DOMAIN resp.obj : resp.obj[key] = JNum(400)
       /\ \E key \in DOMAIN resp.obj : resp.obj[key] = JStr("DIR_NOT_EMPTY")

\* C10: every handler run calls finish exactly once and lets no exception
\* out.
C10_NoExceptionEscapes ==
  phase = "done" => (finished = 1 /\ escaped = "none" /\ resp.shape # "none")

DoneAuth == phase = "done" /\ req.handler = "auth"

AuthAnswer(b) == ObjectResult(<< <<"authenticated", JBool(b)>> >>)

\* the ambient attempt of the request in hand was made and raised nothing
AmbientSucceeded ==
  AmbientAttempted(req.cred) /\ test_aws_s3_role_access(req.ambient) = "none"

\* the three settings are there and the listing with them raises nothing
ExplicitSucceeds == Configured(req.cfg) /\ req.explicit = "ok"

\* C11: the auth handler answers authenticated=true exactly when the ambient
\* attempt raised nothing, or it did not succeed and the configured explicit
\* credentials list the buckets without an exception; in every other case
\* it answers authenticated=false; and the explicit listing is not made
\* when the ambient attempt succeeded.
C11_AuthDecision ==
  DoneAuth =>
    /\ resp = AuthAnswer(AmbientSucceeded \/ (~AmbientSucceeded /\ ExplicitSucceeds))
    /\ AmbientSucceeded => req.explicit = "unused"

\* the one operation the order copy, move, mkdir, write picks for the request
\* in hand, run alone from the store the request found
OnlyOperation ==
  LET m == Tick(Start(pre, 0)) IN
  IF req.copySrc # <<>> THEN PutCopy(m, req.copySrc[1], req.path)
  ELSE IF req.moveSrc # <<>> THEN PutMove(m, req.moveSrc[1], req.path)
  ELSE IF req.isDir THEN PutMkdir(m, req.path)
  ELSE IF req.body.kind # "none" THEN PutWrite(m, req.path, req.body)
  ELSE Outcome(m, ObjectResult(<<>>))

HasInvalidKeyLine(cred) ==
  /\ cred.exists
  /\ \E i \in 1..Len(cred.lines) :
       /\ StartsWith(cred.lines[i], KeyIdField) /\ HasEquals(cred.lines[i])
       /\ ~StartsWith(Strip(AfterEquals(cred.lines[i])), AKIA)
       /\ ~StartsWith(Strip(AfterEquals(cred.lines[i])), ASIA)

\* C13: when the credentials file holds an invalid key line, the auth
\* request makes no ambient call (no bucket listing, no probe) and its
\* answer is the outcome of the explicit credentials alone.
C13_AmbientSkip ==
  (DoneAuth /\ HasInvalidKeyLine(req.cred)) =>
    /\ req.ambient = NoAmbient
    /\ resp = AuthAnswer(ExplicitSucceeds)

\* the calls of the request in hand
CallsOfRequest ==
  IF req.method = "GET" THEN GetCalls(pre, req.path, req.isDir, req.fault)
  ELSE IF req.method = "PUT"
       THEN PutCalls(pre, req.path, req.copySrc, req.moveSrc, req.isDir, req.body, req.fault)
       ELSE DeleteCalls(pre, req.path, req.fault)

\* the calls that read or list through the client's listing cache
ReadCalls == {"open", "listdir", "exists"}

\* C14: in every run of the files handler, each read or list call (the
\* read or listing of GET, the read-back of PUT, the marker check and the
\* listing of DELETE) comes after an invalidation of the listing cache in
\* the same run.
C14_InvalidateBeforeRead ==
  (phase = "done" /\ req.handler = "files") =>
    \A i \in 1..Len(CallsOfRequest) :
      CallsOfRequest[i] \in ReadCalls
        => \E j \in 1..(i - 1) : CallsOfRequest[j] = "invalidate_cache"

\* C15: a DELETE of a directory that answers without an error removes only
\* the objects whose key is the path, the path with a slash, or lies under
\* the path with a slash; every other object, a sibling whose key only
\* begins with the same characters included, is left as it was.
C15_DeleteFrame ==
  (Done("DELETE") /\ req.fault = 0 /\ ~HasError(resp)
     /\ Under(pre, DirOf(req.path)) # {})
    => \A k \in DOMAIN pre :
         \/ k = DirOf(req.path)
         \/ StartsWith(k, DirOf(req.path) \o Slash)
         \/ (k \in DOMAIN store /\ store[k] = pre[k])

\* C16: with a DELETE of directory d and a plain write of a file under d
\* interleaved, the DELETE never both answers without an error and has
\* removed the object the PUT wrote; what a DELETE removes under d is the
\* marker or the directory's own entry only.
C16_NoContentLost ==
  (race.dpc = "done" /\ ~HasError(resp)) =>
    /\ FullName(RaceFile(req.path)) \notin race.removed
    /\ race.removed \subseteq {req.path, req.path \o Slash, req.path \o SlashKeep}

\* C17: a GET of the files handler (a file read or a listing, answered or
\* failed) and a GET of the auth handler leave every object of the store
\* and its content as they were.
C17_GetReadOnly ==
  (phase = "done" /\ req.method = "GET") => store = pre

\* a listing of a directory that holds objects has been answered
C17_Witness ==
  /\ Done("GET") /\ resp.shape = "array" /\ Len(resp.arr) > 0
  /\ DOMAIN store # {} /\ HasSlash(req.path)

====
